---- MODULE Spec2Model ----
(***************************************************************************)
(* The HR assistant chat client: the App component (chat history,          *)
(* knowledge base, the single in-flight request guard), the ChatMessage    *)
(* action buttons, the KnowledgeManager text form, and the geminiService   *)
(* completion client with the model API as an environment that resolves    *)
(* or rejects every call.                                                  *)
(*                                                                         *)
(* Strings are sequences of tokens: a template literal is the              *)
(* concatenation of its pieces, '' is << >>, and trim() strips whitespace  *)
(* tokens from both ends.                                                  *)
(***************************************************************************)
EXTENDS Integers, Sequences, FiniteSets, TLC

(***************************************************************************)
(* Bounds of the model                                                     *)
(***************************************************************************)
\* the user starts no new turn once the chat history holds this many messages
MaxHistory == 5
\* the user adds no item once the knowledge base holds this many
MaxKnowledge == 2
\* no event that would dispatch a request is taken with this many in flight
MaxCalls == 2
MaxPromptItems == 2

(***************************************************************************)
(* Values                                                                  *)
(***************************************************************************)
\* an absent optional string field (imageUrl, mimeType, response.text)
undefined == <<"<undefined>">>
\* useState<string | null>(null)
null == <<"<null>">>
\* an absent relatedQuestionId; crypto.randomUUID() values are 1, 2, ...
NoId == 0

Whitespace == {" ", "\n", "\n\n"}

RECURSIVE TrimStart(_)
TrimStart(s) ==
    IF s = << >> THEN s
    ELSE IF Head(s) \in Whitespace THEN TrimStart(Tail(s)) ELSE s

RECURSIVE TrimEnd(_)
TrimEnd(s) ==
    IF s = << >> THEN s
    ELSE IF s[Len(s)] \in Whitespace THEN TrimEnd(SubSeq(s, 1, Len(s) - 1)) ELSE s

\* String.prototype.trim
trim(s) == TrimEnd(TrimStart(s))

\* JavaScript truthiness of an optional string
Truthy(s) == s # undefined /\ s # null /\ s # << >>

\* the bots of the roster the model selects among
BotNames == {"Mass", "Plaza Vea"}

\* what the user can have typed in the question box
UserInputs == { <<" ">>, <<" ", "q1", " ">> }

\* what the user can have typed in the two fields of the text modal
TextNames == { << >>, <<"doc">> }
TextContents == { << >>, <<"txt", " ">> }

\* response.text of a request of generateContent that resolves
ApiTexts == { <<" ", "a1", " ">> }
\* response.text of the first request of generateImageForConcept when it
\* resolves: a text, or none
ImagePromptTexts == { <<" ", "a1", " ">>, undefined }
\* inlineData.data of an image-generation call that resolves with an image
ApiImages == { <<"img">> }

ActionTypes == {"explain", "example", "image"}

textModel == "gemini-2.5-flash"
imageModel == "gemini-2.5-flash-image"

(***************************************************************************)
(* Fixed texts                                                             *)
(***************************************************************************)
WelcomeText(botName) ==
    <<"¡Hola! Soy ", botName, ", tu asistente de RRHH. Para empezar, añade documentos, PDFs o imágenes a mi memoria usando el panel de la izquierda. Luego, hazme cualquier pregunta.">>

EmptyKnowledgeError ==
    <<"Por favor, añade al menos un documento o imagen a la memoria antes de preguntar.">>
ContactError ==
    <<"Hubo un error al contactar al asistente. Por favor, intenta de nuevo.">>
QuestionNotFoundError ==
    <<"No se pudo encontrar la pregunta original para esta acción.">>
ActionError ==
    <<"Hubo un error al procesar la acción. Por favor, intenta de nuevo.">>
ImageCaption ==
    <<"Aquí tienes una representación visual del concepto:">>
\* what generateContent returns from its catch block
GenerateContentApology ==
    <<"Lo siento, ocurrió un error al procesar tu solicitud. Por favor, intenta de nuevo.">>

(***************************************************************************)
(* geminiService: the requests                                             *)
(***************************************************************************)
\* String.prototype.split: the pieces of s between the separator tokens
RECURSIVE split(_, _)
split(s, separator) ==
    IF \A k \in DOMAIN s : s[k] # separator THEN << s >>
    ELSE LET k == CHOOSE k \in DOMAIN s :
                      s[k] = separator /\ \A j \in 1..(k - 1) : s[j] # separator
         IN  << SubSeq(s, 1, k - 1) >> \o split(SubSeq(s, k + 1, Len(s)), separator)

\* a text part and an inlineData part of a request
TextPart(text) == [text |-> text]
InlineDataPart(mimeType, data) == [inlineData |-> [mimeType |-> mimeType, data |-> data]]

getBaseSystemInstructionWithoutName(botName) ==
    <<"Eres un asistente de Recursos Humanos experto y amigable.">>

getBaseSystemInstruction(botName) ==
    <<"Eres ", botName, ", un asistente de Recursos Humanos experto y amigable. Tu conocimiento se limita estrictamente a los documentos e imágenes que se te proporcionan como contexto. Tu objetivo es ayudar a los empleados a comprender las políticas de la empresa. Responde únicamente basándote en el material proporcionado. Si la respuesta no está en el material, indica amablemente que no tienes esa información. Responde en español.">>

DocumentStart == "--- INICIO DEL DOCUMENTO: "
DocumentEnd == "\n--- FIN DEL DOCUMENTO ---"

\* item.content.split(',')[1]
Base64Data(item) ==
    LET pieces == split(item.content, ",")
    IN  IF Len(pieces) >= 2 THEN pieces[2] ELSE undefined

\* what one pass of the forEach of buildKnowledgeParts pushes: one part or none
KnowledgePartsOfItemWithoutDataCheck(item) ==
    IF item.type = "text"
    THEN << TextPart(<<DocumentStart>> \o item.name \o <<" ---\n">>
                     \o item.content \o <<DocumentEnd>>) >>
    ELSE IF item.type = "image" /\ Truthy(item.mimeType)
    THEN << InlineDataPart(item.mimeType, Base64Data(item)) >>
    ELSE << >>

KnowledgePartsOfItem(item) ==
    IF item.type = "text"
    THEN << TextPart(<<DocumentStart>> \o item.name \o <<" ---\n">>
                     \o item.content \o <<DocumentEnd>>) >>
    ELSE IF item.type = "image" /\ Truthy(item.mimeType)
    THEN IF Truthy(Base64Data(item))
         THEN << InlineDataPart(item.mimeType, Base64Data(item)) >>
         ELSE << >>
    ELSE << >>

RECURSIVE buildKnowledgePartsReversed(_)
buildKnowledgePartsReversed(knowledge) ==
    IF knowledge = << >> THEN << >>
    ELSE buildKnowledgePartsReversed(Tail(knowledge))
            \o KnowledgePartsOfItem(Head(knowledge))

RECURSIVE buildKnowledgePartsUntilSkipped(_)
buildKnowledgePartsUntilSkipped(knowledge) ==
    IF knowledge = << >> THEN << >>
    ELSE IF KnowledgePartsOfItem(Head(knowledge)) = << >> THEN << >>
    ELSE KnowledgePartsOfItem(Head(knowledge))
            \o buildKnowledgePartsUntilSkipped(Tail(knowledge))

RECURSIVE buildKnowledgeParts(_)
buildKnowledgeParts(knowledge) ==
    IF knowledge = << >> THEN << >>
    ELSE KnowledgePartsOfItem(Head(knowledge)) \o buildKnowledgeParts(Tail(knowledge))

InstructionStart ==
    "\n---\nBasado en el contexto anterior, responde la siguiente pregunta del empleado:\n\""

\* a request to ai.models.generateContent: the model, the parts of the
\* contents (a string given as contents is its single text part), and of
\* the config the system instruction and the response modalities
Request(model, parts, systemInstruction, responseModalities) ==
    [model |-> model, parts |-> parts, systemInstruction |-> systemInstruction,
     responseModalities |-> responseModalities]

\* the request generateContent makes
GenerateContentRequest(systemInstruction, userPrompt, knowledge) ==
    Request(textModel,
            buildKnowledgeParts(knowledge)
               \o << TextPart(<<InstructionStart>> \o userPrompt \o <<"\"">>) >>,
            systemInstruction, << >>)

getAnswerWithoutKnowledge(knowledge, question, botName) ==
    GenerateContentRequest(getBaseSystemInstruction(botName), question, << >>)

getAnswer(knowledge, question, botName) ==
    GenerateContentRequest(getBaseSystemInstruction(botName), question, knowledge)

ReExplainSentence ==
    " Un empleado no entendió una respuesta y ha pedido una explicación alternativa."
ExampleSentence ==
    " Un empleado ha solicitado un ejemplo práctico relacionado con una respuesta."

reExplain(knowledge, question, originalAnswer, botName) ==
    GenerateContentRequest(
        getBaseSystemInstruction(botName) \o <<ReExplainSentence>>,
        <<"Pregunta Original: \"">> \o question \o <<"\"\nRespuesta Anterior: \"">>
           \o originalAnswer
           \o <<"\"\n\nPor favor, explica la respuesta anterior de una manera diferente, usando una analogía o términos más sencillos para que sea más fácil de entender.">>,
        knowledge)

getExample(knowledge, question, originalAnswer, botName) ==
    GenerateContentRequest(
        getBaseSystemInstruction(botName) \o <<ExampleSentence>>,
        <<"Pregunta Original: \"">> \o question \o <<"\"\nRespuesta Anterior: \"">>
           \o originalAnswer
           \o <<"\"\n\nPor favor, proporciona un ejemplo concreto y práctico que ilustre el punto principal de la respuesta anterior.">>,
        knowledge)

promptGenerationInstruction ==
    <<"Basado en la siguiente pregunta y respuesta de un manual de empleado, crea un prompt corto y descriptivo en inglés para un modelo de generación de imágenes de IA. El prompt debe capturar la idea central de manera visual y abstracta. Debe ser apto para un entorno profesional. El prompt no debe contener más de 20 palabras.">>

\* the first request of generateImageForConcept
ImagePromptRequest(question, answer) ==
    Request(textModel,
            << TextPart(<<"Pregunta: \"">> \o question \o <<"\"\nRespuesta: \"">>
                        \o answer \o <<"\"\n\nGenera el prompt para la imagen:">>) >>,
            promptGenerationInstruction, << >>)

\* imagePromptResponse.text.trim()
ImagePromptUntrimmed(text) == text

ImagePrompt(text) == trim(text)

\* the second request of generateImageForConcept
ImageRequest(imagePromptText) ==
    Request(imageModel, << TextPart(ImagePrompt(imagePromptText)) >>,
            undefined, <<"IMAGE">>)

\* the two errors generateImageForConcept constructs
ImageNoDataError == <<"No se pudo generar la imagen.">>
ImageFailedError == <<"No se pudo generar la imagen. Por favor, intenta de nuevo.">>

(***************************************************************************)
(* State                                                                   *)
(***************************************************************************)
VARIABLES
    appState,       \* App: 'selecting' | 'chatting'
    selectedBot,    \* App: the bot's name, or "null"
    knowledgeBase,  \* App: sequence of KnowledgeItem
    chatHistory,    \* App: sequence of Message
    userInput,      \* App: content of the question box
    isLoading,      \* App: a request is outstanding (AwaitingResponse)
    error,          \* App: the error banner, or null
    calls,          \* model API: the requests in flight, each with the
                    \*   closure of the handler that awaits it
    uuid,           \* crypto.randomUUID: the next fresh identifier
    showTextModal,  \* KnowledgeManager
    textName,       \* KnowledgeManager
    textContent,    \* KnowledgeManager
    isParsing,      \* KnowledgeManager
    reads,          \* the file reads in flight: the FileReader of an image
                    \*   upload, or the FileReader and the parse of a PDF upload
    lastEvent       \* the event the last step handled

appVars == <<appState, selectedBot, knowledgeBase, chatHistory, userInput,
             isLoading, error>>
uploadVars == <<isParsing, reads>>
kmVars == <<showTextModal, textName, textContent, isParsing, reads>>
vars == <<appState, selectedBot, knowledgeBase, chatHistory, userInput,
          isLoading, error, calls, uuid, showTextModal, textName,
          textContent, isParsing, reads, lastEvent>>

\* what a step handled: the handler, the action type or client operation, the
\* id of the message it is about (NoId when none) and what came of it
Event(op, action, target, outcome) ==
    [op |-> op, action |-> action, target |-> target, outcome |-> outcome]

Message(id, role, text, imageUrl, relatedQuestionId) ==
    [id |-> id, role |-> role, text |-> text, imageUrl |-> imageUrl,
     relatedQuestionId |-> relatedQuestionId]

KnowledgeItem(id, name, type, content, mimeType) ==
    [id |-> id, name |-> name, type |-> type, content |-> content,
     mimeType |-> mimeType]

\* a request in flight: the operation of the completion client that made it,
\* its position in that operation, the knowledge base the operation was
\* given, and what the awaiting handler holds in its closure: the message
\* the handler is about (userMessage of handleSendMessage, the message
\* parameter of handleAction), the user message the answer will refer to,
\* and response.text as set before the await; request is what was sent, and
\* imagePromptResponse the text the first request of generateImageForConcept
\* returned, held by the operation while its second request is in flight
Call(op, stage, model, knowledge, message, relatedUserMessage, caption) ==
    [op |-> op, stage |-> stage, model |-> model, knowledge |-> knowledge,
     message |-> message, relatedUserMessage |-> relatedUserMessage,
     caption |-> caption, request |-> Request(model, << >>, undefined, << >>),
     imagePromptResponse |-> undefined]

\* the call, with the request the operation sent
Sending(call, request) == [call EXCEPT !.request = request]

RemoveAt(s, i) == SubSeq(s, 1, i - 1) \o SubSeq(s, i + 1, Len(s))

Init ==
    /\ appState = "selecting"
    /\ selectedBot = "null"
    /\ knowledgeBase = << >>
    /\ chatHistory = << >>
    /\ userInput = << >>
    /\ isLoading = FALSE
    /\ error = null
    /\ calls = << >>
    /\ uuid = 1
    /\ showTextModal = FALSE
    /\ textName = << >>
    /\ textContent = << >>
    /\ isParsing = FALSE
    /\ reads = << >>
    /\ lastEvent = Event("init", "", NoId, "")

(***************************************************************************)
(* App                                                                     *)
(***************************************************************************)
\* BotSelector is rendered only while appState is 'selecting'
handleBotSelect(bot) ==
    /\ appState = "selecting"
    /\ selectedBot' = bot
    /\ appState' = "chatting"
    /\ chatHistory' = << Message(uuid, "model", WelcomeText(bot), undefined, NoId) >>
    /\ uuid' = uuid + 1
    /\ lastEvent' = Event("handleBotSelect", "", NoId, "")
    /\ UNCHANGED <<knowledgeBase, userInput, isLoading, error, calls>>
    /\ UNCHANGED kmVars

handleAddKnowledgeReplacing(item) ==
    knowledgeBase' = << item >>

handleAddKnowledgePrepending(item) ==
    knowledgeBase' = << item >> \o knowledgeBase

handleAddKnowledge(item) ==
    knowledgeBase' = Append(knowledgeBase, item)

\* onChange of the question box, which is disabled while isLoading
setUserInput(value) ==
    /\ appState = "chatting"
    /\ ~isLoading
    /\ userInput' = value
    /\ lastEvent' = Event("setUserInput", "", NoId, "")
    /\ UNCHANGED <<appState, selectedBot, knowledgeBase, chatHistory,
                   isLoading, error, calls, uuid>>
    /\ UNCHANGED kmVars

\* the first guard of handleSendMessage
SendMessageIgnoredWhileNotLoading(input, loading, bot) ==
    trim(input) = << >> \/ bot = "null"

SendMessageIgnoredUnlessBlank(input, loading, bot) ==
    loading \/ bot = "null"

SendMessageIgnored(input, loading, bot) ==
    trim(input) = << >> \/ loading \/ bot = "null"

\* the second guard of handleSendMessage
KnowledgeBaseNeverEmpty(knowledge) == FALSE

KnowledgeBaseEmpty(knowledge) == Len(knowledge) = 0

\* the text of the user message handleSendMessage appends
UserMessageTextTrimmed(input) == trim(input)

UserMessageText(input) == input

\* onSubmit of the question form, rendered only while 'chatting'
handleSendMessage ==
    /\ appState = "chatting"
    /\ Len(chatHistory) < MaxHistory
    /\ Len(calls) < MaxCalls
    /\ IF SendMessageIgnored(userInput, isLoading, selectedBot)
       THEN /\ lastEvent' = Event("handleSendMessage", "", NoId, "ignored")
            /\ UNCHANGED <<chatHistory, userInput, isLoading, error, calls, uuid>>
       ELSE IF KnowledgeBaseEmpty(knowledgeBase)
       THEN /\ error' = EmptyKnowledgeError
            /\ lastEvent' = Event("handleSendMessage", "", NoId, "error")
            /\ UNCHANGED <<chatHistory, userInput, isLoading, calls, uuid>>
       ELSE LET userMessage == Message(uuid, "user", UserMessageText(userInput),
                                       undefined, NoId)
            IN  /\ chatHistory' = Append(chatHistory, userMessage)
                /\ userInput' = << >>
                /\ isLoading' = TRUE
                /\ error' = null
                /\ calls' = Append(calls,
                      Sending(Call("getAnswer", 1, textModel, knowledgeBase,
                                   userMessage, userMessage, << >>),
                              getAnswer(knowledgeBase, userInput, selectedBot)))
                /\ uuid' = uuid + 1
                /\ lastEvent' = Event("handleSendMessage", "", userMessage.id,
                                      "dispatched")
    /\ UNCHANGED <<appState, selectedBot, knowledgeBase>>
    /\ UNCHANGED kmVars

(***************************************************************************)
(* ChatMessage                                                             *)
(***************************************************************************)
\* ActionButtons are rendered on a model message without an image
ActionButtonsRendered(message) ==
    message.role = "model" /\ ~Truthy(message.imageUrl)

\* disabled={isLoading}
ActionButtonsNeverDisabled(loading) == FALSE

ActionButtonsDisabled(loading) == loading

\* chatHistory.find(m => m.id === message.relatedQuestionId && m.role === 'user')
FindFirstUserMessage(history, message) ==
    LET hits == { i \in DOMAIN history : history[i].role = "user" }
    IN  IF hits = {} THEN 0
        ELSE CHOOSE i \in hits : \A j \in hits : i <= j

FindRelatedUserMessage(history, message) ==
    LET hits == { i \in DOMAIN history :
                    /\ history[i].id = message.relatedQuestionId
                    /\ history[i].role = "user" }
    IN  IF hits = {} THEN 0
        ELSE CHOOSE i \in hits : \A j \in hits : i <= j

\* the relatedQuestionId handleAction gives the message it appends
ActionRelatedQuestionIdOfMessage(relatedUserMessage, message) == message.id

ActionRelatedQuestionId(relatedUserMessage, message) == relatedUserMessage.id

\* the body of handleAction up to its first await
handleAction(action, message) ==
    LET found == FindRelatedUserMessage(chatHistory, message)
    IN  IF selectedBot = "null"
        THEN /\ lastEvent' = Event("handleAction", action, message.id, "ignored")
             /\ UNCHANGED <<isLoading, error, calls>>
        ELSE IF found = 0
        THEN /\ error' = QuestionNotFoundError
             /\ isLoading' = FALSE
             /\ lastEvent' = Event("handleAction", action, message.id, "error")
             /\ UNCHANGED calls
        ELSE /\ isLoading' = TRUE
             /\ error' = null
             /\ calls' = Append(calls,
                   LET related == chatHistory[found]
                       originalQuestion == related.text
                   IN  CASE action = "explain" ->
                              Sending(Call("reExplain", 1, textModel, knowledgeBase,
                                           message, related, << >>),
                                      reExplain(knowledgeBase, originalQuestion,
                                                message.text, selectedBot))
                         [] action = "example" ->
                              Sending(Call("getExample", 1, textModel, knowledgeBase,
                                           message, related, << >>),
                                      getExample(knowledgeBase, originalQuestion,
                                                 message.text, selectedBot))
                         [] action = "image" ->
                              Sending(Call("generateImageForConcept", 1, textModel,
                                           << >>, message, related, ImageCaption),
                                      ImagePromptRequest(originalQuestion,
                                                         message.text)))
             /\ lastEvent' = Event("handleAction", action, message.id, "dispatched")

\* a click on one of the three buttons of the message at position i
ClickAction(action, i) ==
    /\ appState = "chatting"
    /\ i \in DOMAIN chatHistory
    /\ ActionButtonsRendered(chatHistory[i])
    /\ Len(chatHistory) < MaxHistory
    /\ Len(calls) < MaxCalls
    /\ IF ActionButtonsDisabled(isLoading)
       THEN /\ lastEvent' = Event("handleAction", action, NoId, "disabled")
            /\ UNCHANGED <<isLoading, error, calls>>
       ELSE handleAction(action, chatHistory[i])
    /\ UNCHANGED <<appState, selectedBot, knowledgeBase, chatHistory,
                   userInput, uuid>>
    /\ UNCHANGED kmVars

(***************************************************************************)
(* geminiService and the continuations of the two handlers                 *)
(***************************************************************************)
\* how a request ends: the promise resolves with a text, resolves with
\* inline image data, resolves with neither, or rejects
Outcomes(call) ==
    IF call.model = textModel
    THEN { [kind |-> "text", value |-> t] :
              t \in IF call.op = "generateImageForConcept"
                    THEN ImagePromptTexts ELSE ApiTexts }
            \cup { [kind |-> "reject", value |-> undefined] }
    ELSE { [kind |-> "inlineData", value |-> d] : d \in ApiImages }
            \cup { [kind |-> "noInlineData", value |-> undefined],
                   [kind |-> "reject", value |-> undefined] }

\* generateContent, and with it getAnswer, reExplain and getExample: the
\* promise always fulfils, with response.text or, from the catch block, with
\* the apology; it never rejects
generateContent(outcome) ==
    [threw |-> FALSE,
     value |-> IF outcome.kind = "reject" THEN GenerateContentApology
               ELSE outcome.value]

\* the rest of handleSendMessage once getAnswer has settled: the try block
\* goes on, or the catch block runs; the finally block in both
SendMessageSettled(i, outcome) ==
    LET call == calls[i]
        response == generateContent(outcome)
    IN  /\ IF response.threw
           THEN /\ error' = ContactError
                /\ UNCHANGED <<chatHistory, uuid>>
           ELSE /\ chatHistory' = Append(chatHistory,
                       Message(uuid, "model", response.value, undefined,
                               call.relatedUserMessage.id))
                /\ uuid' = uuid + 1
                /\ UNCHANGED error
        /\ isLoading' = FALSE
        /\ calls' = RemoveAt(calls, i)

\* the catch and finally blocks of handleAction
ActionFailedRetrying(i) ==
    /\ error' = ActionError
    /\ calls' = calls
    /\ UNCHANGED <<chatHistory, uuid, isLoading>>

ActionFailedWithoutFinally(i) ==
    /\ error' = ActionError
    /\ calls' = RemoveAt(calls, i)
    /\ UNCHANGED <<chatHistory, uuid, isLoading>>

ActionFailed(i) ==
    /\ error' = ActionError
    /\ isLoading' = FALSE
    /\ calls' = RemoveAt(calls, i)
    /\ UNCHANGED <<chatHistory, uuid>>

ActionTextSettledDroppingHistory(i, outcome) ==
    /\ chatHistory' = << Message(uuid, "model", generateContent(outcome).value,
                                 undefined, calls[i].relatedUserMessage.id) >>
    /\ uuid' = uuid + 1
    /\ isLoading' = FALSE
    /\ calls' = RemoveAt(calls, i)
    /\ UNCHANGED error

\* the rest of handleAction once reExplain or getExample has settled
ActionTextSettled(i, outcome) ==
    LET call == calls[i]
        response == generateContent(outcome)
    IN  IF response.threw
        THEN ActionFailed(i)
        ELSE /\ chatHistory' = Append(chatHistory,
                    Message(uuid, "model",
                            IF Truthy(response.value) THEN response.value ELSE << >>,
                            undefined,
                            ActionRelatedQuestionId(call.relatedUserMessage,
                                                    call.message)))
             /\ uuid' = uuid + 1
             /\ isLoading' = FALSE
             /\ calls' = RemoveAt(calls, i)
             /\ UNCHANGED error

\* generateImageForConcept gets as far as its second request: the first one
\* resolved and imagePromptResponse.text.trim() did not throw
ImagePromptUsable(outcome) ==
    outcome.kind = "text" /\ outcome.value # undefined

\* the catch block of generateImageForConcept: whatever was thrown, the
\* operation rejects with the one error
ImageCatch(thrown) == [threw |-> TRUE, value |-> ImageFailedError]

\* how generateImageForConcept ends when its first request does not lead to
\* the second: the request rejected or the text is missing
ImagePromptFailure(outcome) == ImageCatch(outcome.kind)

generateImageForConceptWithoutImage(outcome) ==
    [threw |-> outcome.kind # "inlineData", value |-> undefined]

\* how generateImageForConcept ends after its second request: the data URL
\* of the image, or the error thrown for a response without inline data
\* and caught by the catch block, or the rejection caught by the catch block
generateImageForConcept(outcome) ==
    IF outcome.kind = "inlineData"
    THEN [threw |-> FALSE, value |-> <<"data:image/png;base64,">> \o outcome.value]
    ELSE IF outcome.kind = "noInlineData"
    THEN ImageCatch(ImageNoDataError)
    ELSE ImageCatch(outcome.kind)

\* generateImageForConcept after its first request: the image request is
\* made with the trimmed text, or the operation throws
ImagePromptSettled(i, outcome) ==
    LET call == calls[i]
    IN  IF ImagePromptUsable(outcome)
        THEN /\ calls' = [calls EXCEPT ![i] =
                    [Sending(Call(call.op, 2, imageModel, << >>, call.message,
                                  call.relatedUserMessage, call.caption),
                             ImageRequest(outcome.value))
                       EXCEPT !.imagePromptResponse = outcome.value]]
             /\ UNCHANGED <<chatHistory, uuid, isLoading, error>>
        ELSE IF ImagePromptFailure(outcome).threw
        THEN ActionFailed(i)
        ELSE FALSE

\* generateImageForConcept after its second request, and the rest of handleAction
ImageSettled(i, outcome) ==
    LET call == calls[i]
        imageUrl == generateImageForConcept(outcome)
    IN  IF ~imageUrl.threw
        THEN /\ chatHistory' = Append(chatHistory,
                    Message(uuid, "model",
                            IF Truthy(call.caption) THEN call.caption ELSE << >>,
                            imageUrl.value,
                            ActionRelatedQuestionId(call.relatedUserMessage,
                                                    call.message)))
             /\ uuid' = uuid + 1
             /\ isLoading' = FALSE
             /\ calls' = RemoveAt(calls, i)
             /\ UNCHANGED error
        ELSE ActionFailed(i)

\* what the operation of the completion client hands its caller when the
\* request of the call ends with the outcome and no further request follows
ClientResult(call, outcome) ==
    IF call.op \in {"getAnswer", "reExplain", "getExample"}
    THEN generateContent(outcome)
    ELSE IF call.stage = 1 THEN ImagePromptFailure(outcome)
    ELSE generateImageForConcept(outcome)

\* what came of the request: the operation goes on to its next request,
\* returns a generated value, or the API call failed
SettleOutcome(call, outcome) ==
    IF call.op = "generateImageForConcept" /\ call.stage = 1
    THEN IF ImagePromptUsable(outcome) THEN "chained" ELSE "failed"
    ELSE IF outcome.kind \in {"text", "inlineData"} THEN "resolved" ELSE "failed"

\* the model API settles the request at position i
ApiSettles(i, outcome) ==
    /\ i \in DOMAIN calls
    /\ outcome \in Outcomes(calls[i])
    /\ CASE calls[i].op = "getAnswer" -> SendMessageSettled(i, outcome)
         [] calls[i].op \in {"reExplain", "getExample"} -> ActionTextSettled(i, outcome)
         [] calls[i].op = "generateImageForConcept" /\ calls[i].stage = 1 ->
                ImagePromptSettled(i, outcome)
         [] calls[i].op = "generateImageForConcept" /\ calls[i].stage = 2 ->
                ImageSettled(i, outcome)
    /\ lastEvent' = Event("apiSettles", calls[i].op, calls[i].message.id,
                          SettleOutcome(calls[i], outcome))
    /\ UNCHANGED <<appState, selectedBot, knowledgeBase, userInput>>
    /\ UNCHANGED kmVars

(***************************************************************************)
(* KnowledgeManager: the text modal                                        *)
(***************************************************************************)
\* the user adds no item while the knowledge base and the reads in flight
\* together hold MaxKnowledge
KnowledgeRoom == Len(knowledgeBase) + Len(reads) < MaxKnowledge

\* the 'Añadir Texto' button, which is disabled while isParsing
OpenTextModal ==
    /\ appState = "chatting"
    /\ ~showTextModal
    /\ ~isParsing
    /\ KnowledgeRoom
    /\ showTextModal' = TRUE
    /\ lastEvent' = Event("openTextModal", "", NoId, "")
    /\ UNCHANGED <<textName, textContent, calls, uuid>>
    /\ UNCHANGED uploadVars
    /\ UNCHANGED appVars

\* onChange of the name field of the modal
setTextName(value) ==
    /\ appState = "chatting"
    /\ showTextModal
    /\ KnowledgeRoom
    /\ textName' = value
    /\ lastEvent' = Event("setTextName", "", NoId, "")
    /\ UNCHANGED <<showTextModal, textContent, calls, uuid>>
    /\ UNCHANGED uploadVars
    /\ UNCHANGED appVars

\* onChange of the content field of the modal
setTextContent(value) ==
    /\ appState = "chatting"
    /\ showTextModal
    /\ KnowledgeRoom
    /\ textContent' = value
    /\ lastEvent' = Event("setTextContent", "", NoId, "")
    /\ UNCHANGED <<showTextModal, textName, calls, uuid>>
    /\ UNCHANGED uploadVars
    /\ UNCHANGED appVars

\* the 'Cancelar' button
CancelTextModal ==
    /\ appState = "chatting"
    /\ showTextModal
    /\ showTextModal' = FALSE
    /\ lastEvent' = Event("cancelTextModal", "", NoId, "")
    /\ UNCHANGED <<textName, textContent, calls, uuid>>
    /\ UNCHANGED uploadVars
    /\ UNCHANGED appVars

\* the 'Añadir' button
handleAddText ==
    /\ appState = "chatting"
    /\ showTextModal
    /\ KnowledgeRoom
    /\ IF trim(textName) # << >> /\ trim(textContent) # << >>
       THEN /\ handleAddKnowledge(KnowledgeItem(uuid, trim(textName), "text",
                                                trim(textContent), undefined))
            /\ uuid' = uuid + 1
            /\ textName' = << >>
            /\ textContent' = << >>
            /\ showTextModal' = FALSE
            /\ lastEvent' = Event("handleAddText", "", NoId, "added")
       ELSE /\ lastEvent' = Event("handleAddText", "", NoId, "ignored")
            /\ UNCHANGED <<knowledgeBase, uuid, textName, textContent, showTextModal>>
    /\ UNCHANGED <<appState, selectedBot, chatHistory, userInput, isLoading,
                   error, calls>>
    /\ UNCHANGED uploadVars

(***************************************************************************)
(* KnowledgeManager: the uploads                                           *)
(***************************************************************************)
\* the files the user can pick: an image, an empty image, a PDF, and a file
\* of another type
Files ==
    { [name |-> <<"a.png">>, type |-> <<"image/", "png">>, data |-> <<"AAAA">>],
      [name |-> <<"e.png">>, type |-> <<"image/", "png">>, data |-> << >>],
      [name |-> <<"m.pdf">>, type |-> <<"application/pdf">>, data |-> <<"%PDF">>],
      [name |-> <<"n.txt">>, type |-> <<"text/plain">>, data |-> <<"abc">>] }

\* the texts of the pages pdf.js finds in a PDF, each page's items joined
PdfPages == { << <<"p1">> >> }

\* String.prototype.startsWith, for a prefix that is one token
startsWith(s, prefix) == s # << >> /\ Head(s) = prefix

\* FileReader.readAsDataURL
readAsDataURL(file) == <<"data:">> \o file.type \o <<";base64", ",">> \o file.data

\* fullText of the loop over the pages
RECURSIVE FullText(_)
FullText(pages) ==
    IF pages = << >> THEN << >>
    ELSE Head(pages) \o <<"\n\n">> \o FullText(Tail(pages))

\* the item reader.onload of an image upload adds
ImageItemWithoutMimeType(id, file, result) ==
    KnowledgeItem(id, file.name, "image", result, undefined)

ImageItem(id, file, result) ==
    KnowledgeItem(id, file.name, "image", result, file.type)

\* the item reader.onload of a PDF upload adds
PdfItem(id, file, fullText) ==
    KnowledgeItem(id, file.name, "text", trim(fullText), undefined)

\* a read in flight
Read(kind, file) == [kind |-> kind, file |-> file]

\* the 'Subir Archivo' button is disabled
UploadButtonNeverDisabled(parsing) == FALSE

UploadButtonDisabled(parsing) == parsing

\* handleFileChange up to the start of the read; starts tells whether the
\* try block of the PDF branch gets as far as reader.readAsArrayBuffer
\* without an exception
handleFileChange(file, starts) ==
    IF startsWith(file.type, "image/")
    THEN /\ reads' = Append(reads, Read("image", file))
         /\ lastEvent' = Event("handleFileChange", "image", NoId, "started")
         /\ UNCHANGED isParsing
    ELSE IF file.type = <<"application/pdf">>
    THEN IF starts
         THEN /\ isParsing' = TRUE
              /\ reads' = Append(reads, Read("pdf", file))
              /\ lastEvent' = Event("handleFileChange", "pdf", NoId, "started")
         ELSE /\ isParsing' = FALSE
              /\ lastEvent' = Event("handleFileChange", "pdf", NoId, "failed")
              /\ UNCHANGED reads
    ELSE /\ lastEvent' = Event("handleFileChange", "other", NoId, "unsupported")
         /\ UNCHANGED <<isParsing, reads>>

\* a click on the 'Subir Archivo' button and the choice of a file in the
\* dialog it opens; a disabled button opens no dialog
ClickUpload(file, starts) ==
    /\ appState = "chatting"
    /\ KnowledgeRoom
    /\ IF UploadButtonDisabled(isParsing)
       THEN /\ lastEvent' = Event("handleFileChange", "", NoId, "disabled")
            /\ UNCHANGED uploadVars
       ELSE handleFileChange(file, starts)
    /\ UNCHANGED <<showTextModal, textName, textContent, calls, uuid>>
    /\ UNCHANGED appVars

\* how a read ends: an image read loads or fails; a PDF read loads and the
\* parse gives the pages, loads and the parse throws, or fails
ReadOutcomes(read) ==
    IF read.kind = "image"
    THEN { [kind |-> "load", pages |-> << >>], [kind |-> "error", pages |-> << >>] }
    ELSE { [kind |-> "load", pages |-> pages] : pages \in PdfPages }
            \cup { [kind |-> "parseError", pages |-> << >>],
                   [kind |-> "error", pages |-> << >>] }

\* reader.onload of the image upload; the reader has no onerror
ImageReadSettled(i, outcome) ==
    /\ IF outcome.kind = "load"
       THEN /\ handleAddKnowledge(ImageItem(uuid, reads[i].file,
                                            readAsDataURL(reads[i].file)))
            /\ uuid' = uuid + 1
            /\ lastEvent' = Event("readSettles", "image", uuid, "added")
       ELSE /\ lastEvent' = Event("readSettles", "image", NoId, "failed")
            /\ UNCHANGED <<knowledgeBase, uuid>>
    /\ UNCHANGED isParsing

PdfReadSettledWithoutFinally(i, outcome) ==
    /\ IF outcome.kind = "load"
       THEN /\ handleAddKnowledge(PdfItem(uuid, reads[i].file,
                                          FullText(outcome.pages)))
            /\ uuid' = uuid + 1
            /\ lastEvent' = Event("readSettles", "pdf", uuid, "added")
            /\ isParsing' = FALSE
       ELSE /\ lastEvent' = Event("readSettles", "pdf", NoId, "failed")
            /\ UNCHANGED <<knowledgeBase, uuid, isParsing>>

\* reader.onload of the PDF upload, to the end of its finally block, and
\* reader.onerror
PdfReadSettled(i, outcome) ==
    /\ IF outcome.kind = "load"
       THEN /\ handleAddKnowledge(PdfItem(uuid, reads[i].file,
                                          FullText(outcome.pages)))
            /\ uuid' = uuid + 1
            /\ lastEvent' = Event("readSettles", "pdf", uuid, "added")
       ELSE /\ lastEvent' = Event("readSettles", "pdf", NoId, "failed")
            /\ UNCHANGED <<knowledgeBase, uuid>>
    /\ isParsing' = FALSE

\* the read at position i ends
ReadSettles(i, outcome) ==
    /\ i \in DOMAIN reads
    /\ outcome \in ReadOutcomes(reads[i])
    /\ IF reads[i].kind = "image"
       THEN ImageReadSettled(i, outcome)
       ELSE PdfReadSettled(i, outcome)
    /\ reads' = RemoveAt(reads, i)
    /\ UNCHANGED <<appState, selectedBot, chatHistory, userInput, isLoading,
                   error, calls, showTextModal, textName, textContent>>

ReadSettlesSome ==
    \E i \in 1..MaxKnowledge, kind \in {"load", "parseError", "error"},
       pages \in PdfPages \cup { << >> } :
        ReadSettles(i, [kind |-> kind, pages |-> pages])

(***************************************************************************)
(* The system                                                              *)
(***************************************************************************)
ApiSettlesSome ==
    \E i \in 1..MaxCalls, kind \in {"text", "inlineData", "noInlineData", "reject"},
       value \in ApiTexts \cup ImagePromptTexts \cup ApiImages :
        ApiSettles(i, [kind |-> kind, value |-> value])

Next ==
    \/ \E bot \in BotNames : handleBotSelect(bot)
    \/ \E value \in UserInputs : setUserInput(value)
    \/ handleSendMessage
    \/ \E action \in ActionTypes, i \in 1..(MaxHistory + 1) : ClickAction(action, i)
    \/ ApiSettlesSome
    \/ OpenTextModal
    \/ \E value \in TextNames : setTextName(value)
    \/ \E value \in TextContents : setTextContent(value)
    \/ CancelTextModal
    \/ handleAddText

Spec == Init /\ [][Next]_vars

\* the model API settles every request: it resolves or rejects in the end
LiveSpec == Spec /\ WF_vars(ApiSettlesSome)

\* the knowledge manager with its uploads
KnowledgeNext ==
    \/ \E bot \in BotNames : handleBotSelect(bot)
    \/ OpenTextModal
    \/ \E value \in TextNames : setTextName(value)
    \/ \E value \in TextContents : setTextContent(value)
    \/ CancelTextModal
    \/ handleAddText
    \/ \E file \in Files, starts \in BOOLEAN : ClickUpload(file, starts)
    \/ ReadSettlesSome

KnowledgeSpec == Init /\ [][KnowledgeNext]_vars

\* every read ends: the FileReader fires load or error, the parse settles
KnowledgeLiveSpec == KnowledgeSpec /\ WF_vars(ReadSettlesSome)

\* the application with its uploads
AppNext == Next \/ KnowledgeNext

AppSpec == Init /\ [][AppNext]_vars

(***************************************************************************)
(* Prompt assembly on arbitrary knowledge sequences                        *)
(***************************************************************************)
\* the items a knowledge sequence can hold at position k, as the type
\* KnowledgeItem allows them: a text, an image as FileReader.readAsDataURL
\* gives it, an image whose data URL has nothing after the comma (an empty
\* file), and an image without mimeType
PromptDigits == <<"1", "2", "3", "4">>

PromptItems(k) ==
    { KnowledgeItem(k, <<"doc", PromptDigits[k]>>, "text",
                    <<"txt", PromptDigits[k]>>, undefined),
      KnowledgeItem(k, <<"img", PromptDigits[k]>>, "image",
                    <<"data:image/png;base64", ",", "AAAA", PromptDigits[k]>>,
                    <<"image/png">>),
      KnowledgeItem(k, <<"img", PromptDigits[k]>>, "image",
                    <<"data:image/jpeg;base64", ",">>, <<"image/jpeg">>),
      KnowledgeItem(k, <<"img", PromptDigits[k]>>, "image",
                    <<"data:image/gif;base64", ",", "BBBB", PromptDigits[k]>>,
                    undefined) }

PromptKnowledge ==
    UNION { { knowledge \in [1..n -> UNION { PromptItems(k) : k \in 1..n }] :
                 \A k \in 1..n : knowledge[k] \in PromptItems(k) } :
            n \in 0..MaxPromptItems }

\* the chat of a selected bot over a knowledge base that holds any such sequence
PromptInit ==
    /\ appState = "chatting"
    /\ selectedBot \in BotNames
    /\ knowledgeBase \in PromptKnowledge
    /\ chatHistory = << Message(MaxPromptItems + 1, "model", WelcomeText(selectedBot),
                                undefined, NoId) >>
    /\ userInput = << >>
    /\ isLoading = FALSE
    /\ error = null
    /\ calls = << >>
    /\ uuid = MaxPromptItems + 2
    /\ showTextModal = FALSE
    /\ textName = << >>
    /\ textContent = << >>
    /\ isParsing = FALSE
    /\ reads = << >>
    /\ lastEvent = Event("init", "", NoId, "")

PromptNext ==
    \/ \E value \in UserInputs : setUserInput(value)
    \/ handleSendMessage
    \/ \E action \in ActionTypes, i \in 1..(MaxHistory + 1) : ClickAction(action, i)
    \/ ApiSettlesSome

PromptSpec == PromptInit /\ [][PromptNext]_vars

(***************************************************************************)
(* Properties                                                              *)
(***************************************************************************)
Last(s) == s[Len(s)]

\* the steps of the handlers, told by the event they record
SendMessageStep == lastEvent'.op = "handleSendMessage"
ActionStep == lastEvent'.op = "handleAction"
SettleStep(ops, outcome) ==
    /\ lastEvent'.op = "apiSettles"
    /\ lastEvent'.action \in ops
    /\ lastEvent'.outcome = outcome

ActionOps == {"reExplain", "getExample", "generateImageForConcept"}

\* C1: in every reachable state at most one request of the completion
\* client (getAnswer, reExplain, getExample, generateImageForConcept) is in
\* flight.
C1_AtMostOneInFlight == Len(calls) <= 1

\* a request is in flight and a further question or action has just arrived
C1_Witness ==
    /\ Len(calls) = 1
    /\ lastEvent.op \in {"handleSendMessage", "handleAction"}
    /\ lastEvent.outcome \in {"ignored", "disabled"}

\* C2: a question submitted while a request is outstanding appends no user
\* message and starts no request, and the settling of the outstanding
\* request starts no getAnswer request for it afterwards.
C2_SubmitWhileLoadingRejected ==
    [][ /\ (SendMessageStep /\ isLoading) =>
              (chatHistory' = chatHistory /\ calls' = calls)
        /\ (lastEvent'.op = "apiSettles") =>
              \A j \in DOMAIN calls' :
                  calls'[j].op = "getAnswer" =>
                      \E k \in DOMAIN calls : calls[k] = calls'[j] ]_vars

\* a non-blank question was submitted while a request is outstanding
C2_Witness ==
    /\ lastEvent.op = "handleSendMessage"
    /\ lastEvent.outcome = "ignored"
    /\ isLoading
    /\ Len(calls) = 1
    /\ trim(userInput) # << >>

\* C3: an action triggered while a request is outstanding starts no
\* request, appends no message and leaves the AwaitingResponse state as it is.
C3_ActionWhileLoadingRejected ==
    [][ (ActionStep /\ isLoading) =>
            (calls' = calls /\ chatHistory' = chatHistory /\ isLoading' = isLoading)
      ]_vars

\* an action button was clicked while a getAnswer request is outstanding
C3_Witness ==
    /\ lastEvent.op = "handleAction"
    /\ lastEvent.outcome = "disabled"
    /\ isLoading
    /\ Len(calls) = 1
    /\ calls[1].op = "getAnswer"

\* C4: a successful submission of Q appends exactly two messages, with no
\* other message between them: at dispatch a user message whose text is Q,
\* and when getAnswer resolves a model message, directly after that user
\* message, whose relatedQuestionId is the user message's id.
C4_SubmitAppendsQuestionThenAnswer ==
    [][ /\ (SendMessageStep /\ lastEvent'.outcome = "dispatched") =>
              /\ Len(chatHistory') = Len(chatHistory) + 1
              /\ SubSeq(chatHistory', 1, Len(chatHistory)) = chatHistory
              /\ Last(chatHistory').role = "user"
              /\ Last(chatHistory').text = userInput
              /\ Last(chatHistory').id = lastEvent'.target
        /\ SettleStep({"getAnswer"}, "resolved") =>
              /\ Len(chatHistory') = Len(chatHistory) + 1
              /\ SubSeq(chatHistory', 1, Len(chatHistory)) = chatHistory
              /\ Last(chatHistory).role = "user"
              /\ Last(chatHistory).id = lastEvent'.target
              /\ Last(chatHistory').role = "model"
              /\ Last(chatHistory').relatedQuestionId = Last(chatHistory).id ]_vars

\* a second question, typed with surrounding blanks, has been answered
C4_Witness ==
    /\ lastEvent.op = "apiSettles"
    /\ lastEvent.action = "getAnswer"
    /\ lastEvent.outcome = "resolved"
    /\ Len(chatHistory) = 5
    /\ chatHistory[4].text = <<" ", "q1", " ">>
    /\ chatHistory[5].relatedQuestionId = chatHistory[4].id

\* the message of the history with the given id
MessageWithId(id) ==
    chatHistory[CHOOSE i \in DOMAIN chatHistory : chatHistory[i].id = id]

\* C5: a successful action on a model message M appends exactly one model
\* message, whose relatedQuestionId is the id of the user question M refers
\* to and not M's own id, also when M is itself the result of an action.
C5_ActionRefersToOriginalQuestion ==
    [][ SettleStep(ActionOps, "resolved") =>
            LET M == MessageWithId(lastEvent'.target)
            IN  /\ Len(chatHistory') = Len(chatHistory) + 1
                /\ SubSeq(chatHistory', 1, Len(chatHistory)) = chatHistory
                /\ Last(chatHistory').role = "model"
                /\ Last(chatHistory').relatedQuestionId = M.relatedQuestionId
                /\ Last(chatHistory').relatedQuestionId # M.id
                /\ \E k \in DOMAIN chatHistory :
                      /\ chatHistory[k].id = M.relatedQuestionId
                      /\ chatHistory[k].role = "user" ]_vars

\* an action on the result of an earlier action has resolved: the fourth
\* message is not the direct answer, and the fifth came of an action on it
C5_Witness ==
    /\ lastEvent.op = "apiSettles"
    /\ lastEvent.action \in ActionOps
    /\ lastEvent.outcome = "resolved"
    /\ Len(chatHistory) = 5
    /\ chatHistory[2].role = "user"
    /\ chatHistory[3].role = "model"
    /\ chatHistory[4].role = "model"
    /\ lastEvent.target = chatHistory[4].id
    /\ chatHistory[5].relatedQuestionId = chatHistory[2].id

\* C6: when the API call made for getAnswer fails, the failed turn appends
\* no model message: the history still ends with the user message of the turn.
C6_FailedAnswerAppendsNoModelMessage ==
    [][ SettleStep({"getAnswer"}, "failed") =>
            (chatHistory' = chatHistory /\ Last(chatHistory').role = "user") ]_vars

\* C7: when the API call of an action fails, for explain, example and image
\* alike, the chat history is left as it was and the generic failure message
\* is put in the error state.
C7_FailedActionLeavesHistory ==
    [][ SettleStep(ActionOps, "failed") =>
            (chatHistory' = chatHistory /\ error' = ActionError) ]_vars

\* C8: every accepted question or action returns the controller to Idle,
\* whether its request succeeds or fails, and a valid submission made in
\* Idle is accepted.
C8_ReturnsToIdle ==
    /\ (isLoading \/ Len(calls) > 0) ~> (~isLoading /\ Len(calls) = 0)
    /\ [][ (/\ SendMessageStep
            /\ ~isLoading
            /\ trim(userInput) # << >>
            /\ Len(knowledgeBase) > 0) =>
               (/\ lastEvent'.outcome = "dispatched"
                /\ isLoading'
                /\ Len(calls') = Len(calls) + 1) ]_vars

\* a question was accepted after the request of an earlier turn had failed
C8_Witness ==
    /\ lastEvent.op = "handleSendMessage"
    /\ lastEvent.outcome = "dispatched"
    /\ isLoading
    /\ error = null
    /\ \E k \in DOMAIN chatHistory : chatHistory[k].text = GenerateContentApology

\* C9: a request in flight implies AwaitingResponse, and only the settling
\* of the request in flight takes the controller back to Idle.
C9_IdleOnlyOnCompletion ==
    /\ [](Len(calls) > 0 => isLoading)
    /\ [][ (isLoading /\ ~isLoading') =>
              (/\ lastEvent'.op = "apiSettles"
               /\ Len(calls) = 1
               /\ Len(calls') = 0) ]_vars

\* the second request of the image action is in flight, and a click on an
\* action button has arrived meanwhile
C9_Witness ==
    /\ Len(calls) = 1
    /\ calls[1].op = "generateImageForConcept"
    /\ calls[1].stage = 2
    /\ isLoading
    /\ lastEvent.op = "handleAction"

\* C10 as stated: every submission made with an empty knowledge base, for
\* any input text, starts no request and sets the error state.
C10_EmptyKnowledgeAlwaysError ==
    (lastEvent.op = "handleSendMessage" /\ Len(knowledgeBase) = 0) =>
        (Len(calls) = 0 /\ error = EmptyKnowledgeError)

\* C10 as amended: a submission made with an empty knowledge base starts no
\* request and appends no message; it sets the empty-knowledge error when
\* the text is not blank, and leaves the error state as it was when the
\* text is blank.
C10_EmptyKnowledgeErrorUnlessBlank ==
    [][ (SendMessageStep /\ Len(knowledgeBase) = 0) =>
            /\ calls' = calls
            /\ chatHistory' = chatHistory
            /\ isLoading' = isLoading
            /\ IF trim(userInput) # << >>
               THEN error' = EmptyKnowledgeError
               ELSE error' = error ]_vars

\* a non-blank question was submitted with an empty knowledge base
C10_Witness ==
    /\ lastEvent.op = "handleSendMessage"
    /\ lastEvent.outcome = "error"
    /\ Len(knowledgeBase) = 0
    /\ trim(userInput) # << >>
    /\ error = EmptyKnowledgeError
    /\ Len(calls) = 0

\* C11 as stated: a blank submission made with a non-empty knowledge base
\* and no request outstanding puts a descriptive message in the error
\* state, starts no request and appends no message.
C11_BlankSubmitSetsError ==
    [][ (/\ SendMessageStep
         /\ trim(userInput) = << >>
         /\ Len(knowledgeBase) > 0
         /\ ~isLoading) =>
            (/\ error' # null
             /\ calls' = calls
             /\ chatHistory' = chatHistory) ]_vars

\* C11 as amended: such a submission is ignored silently: it starts no
\* request, appends no message and leaves the error state, the question box
\* and the Idle state as they were.
C11_BlankSubmitIgnoredSilently ==
    [][ (/\ SendMessageStep
         /\ trim(userInput) = << >>
         /\ Len(knowledgeBase) > 0
         /\ ~isLoading) =>
            (/\ lastEvent'.outcome = "ignored"
             /\ error' = error
             /\ calls' = calls
             /\ chatHistory' = chatHistory
             /\ userInput' = userInput
             /\ isLoading' = isLoading) ]_vars

\* a whitespace-only question was submitted in Idle with knowledge present
C11_Witness ==
    /\ lastEvent.op = "handleSendMessage"
    /\ lastEvent.outcome = "ignored"
    /\ userInput = <<" ">>
    /\ Len(knowledgeBase) > 0
    /\ ~isLoading
    /\ Len(calls) = 0

\* the message refers to no user message of the history
Unresolved(message) ==
    ~ \E k \in DOMAIN chatHistory :
          /\ chatHistory[k].id = message.relatedQuestionId
          /\ chatHistory[k].role = "user"

\* C12: an action on a message whose relatedQuestionId is absent or is not
\* the id of a user message of the history sets the 'original question not
\* found' error, starts no request and appends no message.
C12_UnresolvedActionYieldsNotFound ==
    [][ (/\ ActionStep
         /\ ~isLoading
         /\ lastEvent'.target # NoId
         /\ Unresolved(MessageWithId(lastEvent'.target))) =>
            (/\ error' = QuestionNotFoundError
             /\ calls' = calls
             /\ chatHistory' = chatHistory) ]_vars

\* an action was triggered on the welcome message after a question had
\* been asked and answered
C12_Witness ==
    /\ lastEvent.op = "handleAction"
    /\ lastEvent.outcome = "error"
    /\ Len(chatHistory) >= 3
    /\ lastEvent.target = chatHistory[1].id
    /\ chatHistory[1].relatedQuestionId = NoId
    /\ chatHistory[2].role = "user"
    /\ error = QuestionNotFoundError
    /\ Len(calls) = 0

\* C13: an action that aborts because the original question is not found
\* leaves the chat history, the knowledge base and the Idle/AwaitingResponse
\* state as they were; only the error message changes.
C13_AbortMutatesNothing ==
    [][ (ActionStep /\ lastEvent'.outcome = "error") =>
            (/\ chatHistory' = chatHistory
             /\ knowledgeBase' = knowledgeBase
             /\ isLoading' = isLoading
             /\ calls' = calls
             /\ userInput' = userInput
             /\ uuid' = uuid) ]_vars

\* an action aborted and replaced an earlier error message, with a typed
\* question and knowledge present
C13_Witness ==
    /\ lastEvent.op = "handleAction"
    /\ lastEvent.outcome = "error"
    /\ error = QuestionNotFoundError
    /\ ~isLoading
    /\ Len(knowledgeBase) > 0
    /\ trim(userInput) # << >>

\* C14: whichever operation of the completion client has a request in
\* flight, when that request rejects the operation hands its caller a
\* failure, one the caller can tell from a generated value (the promise
\* rejects), carrying the fixed message and nothing of the transport error.
\* The code: generateImageForConcept does so; getAnswer, reExplain and
\* getExample fulfil with the apology as if it were the generated text.
C14_ApiFailureIsAFailureOutcome ==
    \A i \in DOMAIN calls :
        \A outcome \in Outcomes(calls[i]) :
            outcome.kind = "reject" =>
                /\ ClientResult(calls[i], outcome).threw
                /\ ClientResult(calls[i], outcome).value
                      \in {GenerateContentApology, ImageFailedError}

\* C15: while the image request of generateImageForConcept is in flight, the
\* error the operation ends with when the response carries no inline data
\* differs from the error it ends with when the request itself rejects.
\* The code: the error thrown for the missing data is caught by the catch
\* block of the same function and replaced by the error of a rejection.
C15_NoImageDataIsItsOwnError ==
    \A i \in DOMAIN calls :
        (calls[i].op = "generateImageForConcept" /\ calls[i].stage = 2) =>
            ClientResult(calls[i], [kind |-> "noInlineData", value |-> undefined])
                # ClientResult(calls[i], [kind |-> "reject", value |-> undefined])

\* parts of a request, told by their shape
IsTextPart(part) == "text" \in DOMAIN part
IsInlineDataPart(part) == "inlineData" \in DOMAIN part
IsDocumentBlock(part) ==
    /\ IsTextPart(part)
    /\ Len(part.text) >= 2
    /\ Head(part.text) = DocumentStart
    /\ Last(part.text) = DocumentEnd
IsInstructionBlock(part) == IsTextPart(part) /\ Head(part.text) = InstructionStart

\* s holds sub as a run of consecutive tokens
Contains(s, sub) ==
    \E k \in 0..(Len(s) - Len(sub)) : SubSeq(s, k + 1, k + Len(sub)) = sub

IsTextItem(item) == item.type = "text"
IsImageItemWithMimeType(item) == item.type = "image" /\ Truthy(item.mimeType)

\* the content of the item has something right after its first comma
HasDataAfterComma(item) ==
    \E k \in 1..(Len(item.content) - 1) :
        /\ item.content[k] = ","
        /\ \A j \in 1..(k - 1) : item.content[j] # ","
        /\ item.content[k + 1] # ","
IsImageItemWithData(item) == IsImageItemWithMimeType(item) /\ HasDataAfterComma(item)
WellFormed(item) == IsTextItem(item) \/ IsImageItemWithData(item)

\* the part is the block of the item
IsBlockOf(part, item) ==
    \/ /\ IsTextItem(item)
       /\ IsDocumentBlock(part)
       /\ Contains(part.text, item.name)
       /\ Contains(part.text, item.content)
    \/ /\ item.type = "image"
       /\ IsInlineDataPart(part)
       /\ part.inlineData.mimeType = item.mimeType
       /\ part.inlineData.data # << >>
       /\ Contains(item.content, <<",">> \o part.inlineData.data)

\* the requests in flight that generateContent assembled, and the texts the
\* operation was asked about
GenerateContentCalls ==
    { i \in DOMAIN calls : calls[i].op \in {"getAnswer", "reExplain", "getExample"} }
AskedTexts(call) ==
    IF call.op = "getAnswer" THEN { call.message.text }
    ELSE { call.relatedUserMessage.text, call.message.text }

\* C16: in every request generateContent assembles from a knowledge
\* sequence K, there are as many document blocks as K has text items, the
\* j-th of them with the delimiters and the name and content of the j-th
\* text item; all the knowledge blocks stand in the order of their items in
\* K; and the last part, and no other, is the instruction block, which
\* holds the text asked.
C16_DocumentBlocksInOrderThenInstruction ==
    \A i \in GenerateContentCalls :
        LET K == calls[i].knowledge
            parts == calls[i].request.parts
            n == Len(parts)
            blocks == SelectSeq(parts, IsDocumentBlock)
            texts == SelectSeq(K, IsTextItem)
        IN  /\ n >= 1
            /\ Len(blocks) = Len(texts)
            /\ \A j \in DOMAIN blocks : IsBlockOf(blocks[j], texts[j])
            /\ \E f \in [1..(n - 1) -> DOMAIN K] :
                  /\ \A j \in 1..(n - 1) : IsBlockOf(parts[j], K[f[j]])
                  /\ \A j, k \in 1..(n - 1) : j < k => f[j] < f[k]
            /\ IsInstructionBlock(parts[n])
            /\ \A t \in AskedTexts(calls[i]) : Contains(parts[n].text, t)
            /\ \A j \in 1..(n - 1) : ~IsInstructionBlock(parts[j])

C16_Witness ==
    \E i \in GenerateContentCalls :
        /\ Len(calls[i].knowledge) = 2
        /\ IsTextItem(calls[i].knowledge[2])
        /\ WellFormed(calls[i].knowledge[1])
        /\ Len(calls[i].request.parts) = 3

\* C17 as stated: the image blocks of the request are, in order, those of
\* the image items of K that have a mimeType, each with that mimeType.
C17_ImageBlockPerImageWithMimeType ==
    \A i \in GenerateContentCalls :
        LET images == SelectSeq(calls[i].knowledge, IsImageItemWithMimeType)
            blocks == SelectSeq(calls[i].request.parts, IsInlineDataPart)
        IN  /\ Len(blocks) = Len(images)
            /\ \A j \in DOMAIN blocks :
                  blocks[j].inlineData.mimeType = images[j].mimeType

\* C17, amended: the image blocks of the request are, in order, those of
\* the image items of K that have a mimeType and data after the first comma
\* of their content, each with the mimeType and that data of its item; an
\* image item with a mimeType and no such data yields no block.
C17_ImageBlockPerImageWithMimeTypeAndData ==
    \A i \in GenerateContentCalls :
        LET images == SelectSeq(calls[i].knowledge, IsImageItemWithData)
            blocks == SelectSeq(calls[i].request.parts, IsInlineDataPart)
        IN  /\ Len(blocks) = Len(images)
            /\ \A j \in DOMAIN blocks : IsBlockOf(blocks[j], images[j])

C17_Witness ==
    \E i \in GenerateContentCalls :
        /\ Len(calls[i].knowledge) = 2
        /\ IsImageItemWithMimeType(calls[i].knowledge[1])
        /\ ~HasDataAfterComma(calls[i].knowledge[1])
        /\ IsImageItemWithData(calls[i].knowledge[2])
        /\ Len(calls[i].request.parts) = 2

\* C18: a submission that passes the guards of handleSendMessage is
\* dispatched whatever the knowledge base holds, and in every request
\* generateContent assembles, each well-formed item of K has its block, the
\* items that are not (an image without mimeType, or without data) have
\* none, and the instruction block closes the request.
C18_MalformedItemsSkipped ==
    /\ [][ (/\ SendMessageStep
            /\ trim(userInput) # << >>
            /\ ~isLoading
            /\ Len(knowledgeBase) > 0) =>
               (/\ lastEvent'.outcome = "dispatched"
                /\ Len(calls') = Len(calls) + 1) ]_vars
    /\ [](\A i \in GenerateContentCalls :
            LET K == calls[i].knowledge
                parts == calls[i].request.parts
                n == Len(parts)
            IN  /\ n = Len(SelectSeq(K, WellFormed)) + 1
                /\ \A k \in DOMAIN K :
                      WellFormed(K[k]) =>
                          \E j \in 1..(n - 1) : IsBlockOf(parts[j], K[k])
                /\ IsInstructionBlock(parts[n]))

C18_Witness ==
    \E i \in GenerateContentCalls :
        /\ Len(calls[i].knowledge) = 2
        /\ calls[i].knowledge[1].type = "image"
        /\ ~Truthy(calls[i].knowledge[1].mimeType)
        /\ IsTextItem(calls[i].knowledge[2])
        /\ Len(calls[i].request.parts) = 2
        /\ IsDocumentBlock(calls[i].request.parts[1])

\* the requests in flight of generateImageForConcept, first and second
ImagePromptCalls ==
    { i \in DOMAIN calls :
         calls[i].op = "generateImageForConcept" /\ calls[i].stage = 1 }
ImageCalls ==
    { i \in DOMAIN calls :
         calls[i].op = "generateImageForConcept" /\ calls[i].stage = 2 }

\* the first request of generateImageForConcept goes to the text model with
\* one text part that holds the question and the answer and no knowledge block
FirstImageRequestFromQuestionAndAnswer(call) ==
    /\ call.request.model = textModel
    /\ Len(call.request.parts) = 1
    /\ IsTextPart(call.request.parts[1])
    /\ ~IsDocumentBlock(call.request.parts[1])
    /\ Contains(call.request.parts[1].text, call.relatedUserMessage.text)
    /\ Contains(call.request.parts[1].text, call.message.text)

\* a request of generateImageForConcept to the image model comes into being
\* only in the step in which its first request resolves with a text, in the
\* place of that request; when the first request fails the operation is over
SecondImageRequestOnlyAfterFirst ==
    [][ /\ \A j \in DOMAIN calls' :
              (/\ calls'[j].op = "generateImageForConcept"
               /\ calls'[j].stage = 2
               /\ \A k \in DOMAIN calls : calls[k] # calls'[j]) =>
                  (/\ j \in ImagePromptCalls
                   /\ lastEvent'.op = "apiSettles"
                   /\ lastEvent'.outcome = "chained"
                   /\ calls'[j].imagePromptResponse # undefined)
        /\ (/\ SettleStep({"generateImageForConcept"}, "failed")
            /\ ImagePromptCalls # {}) =>
               (/\ Len(calls') = Len(calls) - 1
                /\ \A j \in DOMAIN calls' : calls'[j] \in { calls[k] : k \in DOMAIN calls }) ]_vars

\* C19 as stated: the first request is built from the question and the
\* answer only, the second goes to the image model with the text the first
\* returned as its prompt, and the second is made only after the first has
\* resolved and never when it fails.
C19_SecondPromptIsReturnedText ==
    /\ [](/\ \A i \in ImagePromptCalls : FirstImageRequestFromQuestionAndAnswer(calls[i])
          /\ \A i \in ImageCalls :
                /\ calls[i].request.model = imageModel
                /\ calls[i].request.parts = << TextPart(calls[i].imagePromptResponse) >>)
    /\ SecondImageRequestOnlyAfterFirst

\* C19, amended: as stated, except that the prompt of the second request is
\* the text the first returned with the whitespace at its two ends removed.
C19_SecondPromptIsTrimmedReturnedText ==
    /\ [](/\ \A i \in ImagePromptCalls : FirstImageRequestFromQuestionAndAnswer(calls[i])
          /\ \A i \in ImageCalls :
                /\ calls[i].request.model = imageModel
                /\ calls[i].imagePromptResponse # undefined
                /\ calls[i].request.parts =
                      << TextPart(TrimEnd(TrimStart(calls[i].imagePromptResponse))) >>)
    /\ SecondImageRequestOnlyAfterFirst

C19_Witness ==
    \E i \in ImageCalls :
        /\ lastEvent.outcome = "chained"
        /\ calls[i].imagePromptResponse # calls[i].request.parts[1].text
        /\ isLoading

\* the system instruction begins with the base system instruction of the bot
BeginsWithBase(systemInstruction, bot) ==
    /\ Len(systemInstruction) >= Len(getBaseSystemInstruction(bot))
    /\ SubSeq(systemInstruction, 1, Len(getBaseSystemInstruction(bot)))
          = getBaseSystemInstruction(bot)
    /\ Contains(systemInstruction, <<bot>>)

\* C20 as stated: every request in flight carries a system instruction that
\* begins with the base system instruction for the selected bot's name.
C20_BaseInstructionOnEveryRequest ==
    \A i \in DOMAIN calls :
        BeginsWithBase(calls[i].request.systemInstruction, selectedBot)

\* C20, amended: the request of getAnswer carries the base system
\* instruction for the selected bot's name, those of reExplain and
\* getExample carry it followed by one sentence of their own; of the two
\* requests of generateImageForConcept the first carries the fixed
\* prompt-writing instruction, which does not hold the bot's name, and the
\* second carries no system instruction.
C20_BaseInstructionOnTextOperations ==
    \A i \in DOMAIN calls :
        LET systemInstruction == calls[i].request.systemInstruction
        IN  CASE calls[i].op = "getAnswer" ->
                   /\ BeginsWithBase(systemInstruction, selectedBot)
                   /\ Len(systemInstruction) = Len(getBaseSystemInstruction(selectedBot))
              [] calls[i].op \in {"reExplain", "getExample"} ->
                   /\ BeginsWithBase(systemInstruction, selectedBot)
                   /\ Len(systemInstruction)
                         = Len(getBaseSystemInstruction(selectedBot)) + 1
                   /\ Last(systemInstruction) \in {ReExplainSentence, ExampleSentence}
              [] i \in ImagePromptCalls ->
                   /\ systemInstruction = promptGenerationInstruction
                   /\ ~Contains(systemInstruction, <<selectedBot>>)
              [] i \in ImageCalls -> systemInstruction = undefined

C20_Witness ==
    /\ \E i \in ImageCalls : calls[i].request.systemInstruction = undefined
    /\ \E k \in DOMAIN chatHistory :
          /\ chatHistory[k].role = "model"
          /\ chatHistory[k].relatedQuestionId # NoId
    /\ selectedBot \in BotNames

\* s is the beginning of t
IsPrefix(s, t) == Len(s) <= Len(t) /\ SubSeq(t, 1, Len(s)) = s

\* C21: once a bot is selected, every step of the application (a
\* submission, an action, the settling of a request, an addition to the
\* knowledge base, an upload) leaves the chat history it found as the
\* beginning of the chat history it leaves.
C21_HistoryAppendOnly ==
    [][ appState = "chatting" => IsPrefix(chatHistory, chatHistory') ]_vars

C21_Witness ==
    /\ lastEvent.op = "apiSettles"
    /\ lastEvent.action \in {"reExplain", "getExample"}
    /\ Len(chatHistory) >= 4
    /\ Len(knowledgeBase) >= 1

\* C22: every step of the application leaves the knowledge base it found as
\* the beginning of the knowledge base it leaves, and a step that adds an
\* item adds exactly one, at the end.
C22_KnowledgeAppendOnly ==
    [][ /\ IsPrefix(knowledgeBase, knowledgeBase')
        /\ Len(knowledgeBase') <= Len(knowledgeBase) + 1 ]_vars

C22_Witness ==
    /\ Len(knowledgeBase) = 2
    /\ knowledgeBase[1].type = "image"
    /\ knowledgeBase[2].type = "text"
    /\ Len(chatHistory) >= 3
    /\ error # null

\* C23: whatever has been ingested, by image upload, PDF upload or the text
\* modal, every item of the knowledge base has a mimeType exactly when its
\* type is image.
C23_MimeTypeIffImage ==
    \A k \in DOMAIN knowledgeBase :
        Truthy(knowledgeBase[k].mimeType) <=> knowledgeBase[k].type = "image"

C23_Witness ==
    /\ Len(knowledgeBase) = 2
    /\ \E k \in DOMAIN knowledgeBase :
          /\ knowledgeBase[k].type = "image"
          /\ knowledgeBase[k].mimeType = <<"image/", "png">>
    /\ \E k \in DOMAIN knowledgeBase :
          /\ knowledgeBase[k].type = "text"
          /\ knowledgeBase[k].name = <<"m.pdf">>

\* C24: when the image request of an Image action resolves with inline
\* data, the step appends one model message whose text is the fixed caption
\* and whose imageUrl is the data URL of that data; when the request of an
\* Explain or Example action resolves, the step appends one model message
\* whose text is the text the request resolved with and that has no imageUrl.
C24_ImageMessageHasCaptionAndImage ==
    [][ /\ SettleStep({"generateImageForConcept"}, "resolved") =>
              /\ Len(chatHistory') = Len(chatHistory) + 1
              /\ Last(chatHistory').role = "model"
              /\ Last(chatHistory').text = ImageCaption
              /\ Last(chatHistory').imageUrl
                    \in { <<"data:image/png;base64,">> \o data : data \in ApiImages }
        /\ SettleStep({"reExplain", "getExample"}, "resolved") =>
              /\ Len(chatHistory') = Len(chatHistory) + 1
              /\ Last(chatHistory').role = "model"
              /\ Last(chatHistory').text \in ApiTexts
              /\ Last(chatHistory').imageUrl = undefined ]_vars

C24_Witness ==
    /\ lastEvent.op = "apiSettles"
    /\ lastEvent.action = "generateImageForConcept"
    /\ lastEvent.outcome = "resolved"
    /\ Last(chatHistory).imageUrl # undefined
    /\ \E j, k \in DOMAIN chatHistory :
          /\ j < k
          /\ \A m \in {j, k} :
                /\ chatHistory[m].role = "model"
                /\ chatHistory[m].relatedQuestionId # NoId
                /\ chatHistory[m].imageUrl = undefined
                /\ chatHistory[m].text \in ApiTexts

\* C25: a request comes into being only in a step of handleSendMessage or
\* handleAction that dispatches, one per step, and in the step in which the
\* first request of an Image action resolves, in its place; every other
\* settling of a request, a failure included, takes the request away and
\* issues none, and no other step touches the requests in flight.
C25_NoAutomaticRetry ==
    [][ /\ ((SendMessageStep \/ ActionStep) /\ lastEvent'.outcome = "dispatched") =>
              /\ Len(calls') = Len(calls) + 1
              /\ IsPrefix(calls, calls')
              /\ Last(calls').stage = 1
        /\ ((SendMessageStep \/ ActionStep) /\ lastEvent'.outcome # "dispatched") =>
              calls' = calls
        /\ (lastEvent'.op = "apiSettles" /\ lastEvent'.outcome = "chained") =>
              \E i \in DOMAIN calls :
                  /\ calls[i].op = "generateImageForConcept"
                  /\ calls[i].stage = 1
                  /\ DOMAIN calls' = DOMAIN calls
                  /\ calls'[i].op = "generateImageForConcept"
                  /\ calls'[i].stage = 2
                  /\ \A j \in DOMAIN calls : j # i => calls'[j] = calls[j]
        /\ (lastEvent'.op = "apiSettles" /\ lastEvent'.outcome # "chained") =>
              \E i \in DOMAIN calls : calls' = RemoveAt(calls, i)
        /\ lastEvent'.op \notin {"handleSendMessage", "handleAction", "apiSettles"} =>
              calls' = calls ]_vars

C25_Witness ==
    /\ lastEvent.op = "apiSettles"
    /\ lastEvent.action = "generateImageForConcept"
    /\ lastEvent.outcome = "failed"
    /\ calls = << >>
    /\ ~isLoading
    /\ error = ActionError

\* C26: in every reachable state, a model message of the chat history that
\* has a relatedQuestionId has the id of a user message that stands before
\* it in the history, and the one model message without relatedQuestionId
\* is the welcome message, at position one.
C26_BackReferenceIntegrity ==
    \A k \in DOMAIN chatHistory :
        chatHistory[k].role = "model" =>
            IF chatHistory[k].relatedQuestionId = NoId
            THEN k = 1 /\ chatHistory[k].text = WelcomeText(selectedBot)
            ELSE \E j \in 1..(k - 1) :
                    /\ chatHistory[j].role = "user"
                    /\ chatHistory[j].id = chatHistory[k].relatedQuestionId

C26_Witness ==
    /\ Len(chatHistory) >= 4
    /\ chatHistory[3].role = "model"
    /\ chatHistory[4].role = "model"
    /\ chatHistory[4].relatedQuestionId = chatHistory[2].id
    /\ chatHistory[2].role = "user"
    /\ error = QuestionNotFoundError

\* a step of handleSendMessage or handleAction that dispatches a request
DispatchStep ==
    (SendMessageStep \/ ActionStep) /\ lastEvent'.outcome = "dispatched"

\* every item of the knowledge sequence has its block among the parts
AllItemsIncluded(knowledge, parts) ==
    \A k \in DOMAIN knowledge :
        \E j \in DOMAIN parts : IsBlockOf(parts[j], knowledge[k])

\* a step that adds to the knowledge base leaves the requests in flight as
\* they are, and every request in flight was given the beginning of the
\* knowledge base that existed when it was dispatched
AdditionsLeaveRequestsInFlight ==
    /\ [][ knowledgeBase' # knowledgeBase => calls' = calls ]_vars
    /\ [](\A i \in DOMAIN calls : IsPrefix(calls[i].knowledge, knowledgeBase))

\* C27 as stated: items are added while a request is in flight without a
\* change to that request, and every request dispatched afterwards, of
\* whichever operation, holds a block for every item of the knowledge base
\* as it is at the dispatch.
C27_NextRequestIncludesAddedItems ==
    /\ AdditionsLeaveRequestsInFlight
    /\ [][ DispatchStep =>
              AllItemsIncluded(knowledgeBase, Last(calls').request.parts) ]_vars

\* C27, amended: as stated for the requests of getAnswer, reExplain and
\* getExample and the items that have something to send (a text, or an image
\* with data after the first comma of its content): such a request holds
\* one block for each of these items of the knowledge base as it is at the
\* dispatch and none for an image without data; the request an Image action
\* dispatches holds no block of any knowledge item.
C27_NextKnowledgeRequestIncludesAddedItems ==
    /\ AdditionsLeaveRequestsInFlight
    /\ [][ DispatchStep =>
              LET parts == Last(calls').request.parts
              IN  IF Last(calls').op = "generateImageForConcept"
                  THEN /\ Last(calls').knowledge = << >>
                       /\ \A k \in DOMAIN knowledgeBase :
                             \A j \in DOMAIN parts :
                                 ~IsBlockOf(parts[j], knowledgeBase[k])
                  ELSE /\ Last(calls').knowledge = knowledgeBase
                       /\ \A k \in DOMAIN knowledgeBase :
                             IF WellFormed(knowledgeBase[k])
                             THEN \E j \in DOMAIN parts :
                                      IsBlockOf(parts[j], knowledgeBase[k])
                             ELSE \A j \in DOMAIN parts :
                                      ~IsBlockOf(parts[j], knowledgeBase[k])
                       /\ Len(parts) = Len(SelectSeq(knowledgeBase, WellFormed)) + 1 ]_vars

\* C27, the case: a text (or an image with data) was in the knowledge base,
\* an image without data was added while the first request was in flight,
\* and the request dispatched after it, built from both items, holds the
\* block of the first item and the instruction only.
C27_Witness ==
    /\ Len(chatHistory) >= 4
    /\ Len(knowledgeBase) = 2
    /\ chatHistory[2].id < knowledgeBase[2].id
    /\ knowledgeBase[2].id < chatHistory[3].id
    /\ WellFormed(knowledgeBase[1])
    /\ ~WellFormed(knowledgeBase[2])
    /\ \E i \in GenerateContentCalls :
          /\ calls[i].knowledge = knowledgeBase
          /\ Len(calls[i].request.parts) = 2
          /\ IsBlockOf(calls[i].request.parts[1], knowledgeBase[1])

\* C28: with reads of uploads in flight and the text modal open, in
\* whatever order they end: a read that loads (and, for a PDF, parses)
\* takes itself from the reads in flight and puts exactly one item, with a
\* fresh id and the name of its file, at the end of the knowledge base as
\* it is at that moment; an accepted text entry does the same with its name;
\* a read that fails, a file of an unsupported type and the start of an
\* upload add nothing; and no two items of the knowledge base share an id.
C28_NoLostIngestion ==
    /\ [][ /\ (lastEvent'.op = "readSettles" /\ lastEvent'.outcome = "added") =>
                 \E i \in DOMAIN reads :
                     /\ reads' = RemoveAt(reads, i)
                     /\ Len(knowledgeBase') = Len(knowledgeBase) + 1
                     /\ IsPrefix(knowledgeBase, knowledgeBase')
                     /\ Last(knowledgeBase').id = lastEvent'.target
                     /\ Last(knowledgeBase').name = reads[i].file.name
                     /\ Last(knowledgeBase').type =
                           (IF reads[i].kind = "image" THEN "image" ELSE "text")
           /\ (lastEvent'.op = "handleAddText" /\ lastEvent'.outcome = "added") =>
                 /\ Len(knowledgeBase') = Len(knowledgeBase) + 1
                 /\ IsPrefix(knowledgeBase, knowledgeBase')
                 /\ Last(knowledgeBase').name = TrimEnd(TrimStart(textName))
                 /\ reads' = reads
           /\ (\/ lastEvent'.op = "readSettles" /\ lastEvent'.outcome = "failed"
               \/ lastEvent'.op = "handleAddText" /\ lastEvent'.outcome = "ignored"
               \/ lastEvent'.op = "handleFileChange") =>
                 knowledgeBase' = knowledgeBase ]_vars
    /\ [](\A j, k \in DOMAIN knowledgeBase :
             knowledgeBase[j].id = knowledgeBase[k].id => j = k)

C28_Witness ==
    /\ lastEvent.op = "readSettles"
    /\ lastEvent.action = "pdf"
    /\ lastEvent.outcome = "added"
    /\ Len(reads) = 1
    /\ reads[1].kind = "image"
    /\ Len(knowledgeBase) = 1
    /\ showTextModal

\* C29: whenever isParsing is set it is cleared again later; the step in
\* which the read of a PDF ends clears it, whether the parse gave the text,
\* the parse threw or the read failed, and so does an upload whose start
\* threw; and while isParsing is set no step of handleFileChange is taken
\* and at most one read of a PDF is in flight.
C29_ParsingFlagCleared ==
    /\ isParsing ~> ~isParsing
    /\ [][ /\ (lastEvent'.op = "readSettles" /\ lastEvent'.action = "pdf") =>
                 ~isParsing'
           /\ (/\ lastEvent'.op = "handleFileChange"
               /\ lastEvent'.action = "pdf"
               /\ lastEvent'.outcome = "failed") => ~isParsing'
           /\ (isParsing /\ lastEvent'.op = "handleFileChange") =>
                 (/\ lastEvent'.outcome = "disabled"
                  /\ reads' = reads
                  /\ isParsing') ]_vars
    /\ [](isParsing <=> \E i \in DOMAIN reads : reads[i].kind = "pdf")
    /\ [](\A i, j \in DOMAIN reads :
             (reads[i].kind = "pdf" /\ reads[j].kind = "pdf") => i = j)

C29_Witness ==
    /\ lastEvent.op = "readSettles"
    /\ lastEvent.action = "pdf"
    /\ lastEvent.outcome = "failed"
    /\ ~isParsing
    /\ \A i \in DOMAIN reads : reads[i].kind # "pdf"

====
